---- MODULE Spec2Model ----
(***************************************************************************)
(* Model of json_parser.py: the script loads aircraft.json, walks every    *)
(* record of data["aircraft"], accumulates the set `fields` of             *)
(* (name, str(type)) tuples and the set `fields_unique` of names found     *)
(* missing from some record, sorts `fields` by name and writes one Rust    *)
(* struct field declaration per entry to fields.txt.                       *)
(*                                                                         *)
(* Strings.  A field name is the sequence of its code points, so that the  *)
(* comparison sorted() makes is computed, not assumed.  The text           *)
(* str(type(v)), e.g. <class 'int'>, is the sequence of its segments       *)
(* between apostrophes, <<"<class ", "int", ">">>, which is what           *)
(* split("'") returns.  Every other text is a one-segment sequence.        *)
(***************************************************************************)
EXTENDS Integers, Sequences, FiniteSets

\* ---------------------------------------------------------------- bounds

\* Most records in data["aircraft"].
MaxRecords == 2

\* Number of distinct field names the records draw from.
NumNames == 2

\* ---------------------------------------------------------------- inputs

\* "b", "ab", "a", "ba" as code points.
NameList == << <<98>>, <<97, 98>>, <<97>>, <<98, 97>> >>

FieldNames == {NameList[n] : n \in 1..NumNames}

\* type(v).__name__ for every value json.load can put in a record.
Kinds == {"str", "int", "float", "bool", "dict", "list", "NoneType"}

\* The value kinds of records that hold numbers only.
NumberKinds == {"int", "float"}

\* A record (a dict): each key mapped to the kind of its value.
Records(K) == UNION {[S -> K] : S \in SUBSET FieldNames}

\* data["aircraft"]: a list of records.
Documents(K) == UNION {[1..n -> Records(K)] : n \in 0..MaxRecords}

\* ---------------------------------------------------------------- state

VARIABLES
    data,           \* data["aircraft"]
    pc,             \* "loop" (lines 16-25), "write" (lines 30-47), "done"
    idx,            \* position of `aircraft` in data; 0 before the first
    todo,           \* keys of `aircraft` the inner loop has yet to visit
    fields,         \* the set built by line 25
    fields_unique,  \* the set built by line 22
    sorted_fields,  \* the list line 28 binds to `fields`
    written,        \* entries of sorted_fields the output loop has handled
    out             \* lines written to fields.txt

vars == <<data, pc, idx, todo, fields, fields_unique, sorted_fields, written, out>>

\* ---------------------------------------------------------------- helpers

\* str(type(v)) for a value of kind k, as its segments between apostrophes.
StrOfType(k) == <<"<class ", k, ">">>

\* Python's < on str: code point by code point, a proper prefix is smaller.
RECURSIVE LexLess(_, _)
LexLess(s, t) ==
    IF s = <<>> THEN t # <<>>
    ELSE IF t = <<>> THEN FALSE
    ELSE IF Head(s) < Head(t) THEN TRUE
    ELSE IF Head(s) > Head(t) THEN FALSE
    ELSE LexLess(Tail(s), Tail(t))

\* The lists sorted(fields, key=lambda x: x[0]) can return. The sort compares
\* names only and is stable: the result is ascending by name, and entries with
\* the same name stay in the order iterating the set yields them. That order
\* follows the hashes of the tuples, which str hash randomisation changes from
\* run to run, so among such entries any of them can come first.
RECURSIVE SortedByName(_)
SortedByName(S) ==
    IF S = {} THEN {<<>>}
    ELSE LET least == {x \in S : \A y \in S : ~LexLess(y[1], x[1])}
         IN UNION {{<<x>> \o rest : rest \in SortedByName(S \ {x})} : x \in least}

\* AbsenceCheck with the test of line 21 the wrong way round (`f in aircraft`).
AbsenceCheckInverted(fs, aircraft) ==
    IF Cardinality(fs) > 0
    THEN {e[1] : e \in {e \in fs : e[1] \in DOMAIN aircraft}}
    ELSE {}

\* AbsenceCheck without the test of line 21: every known name is added.
AbsenceCheckUntested(fs, aircraft) ==
    IF Cardinality(fs) > 0
    THEN {e[1] : e \in fs}
    ELSE {}

\* Lines 19-22: the names of `fields` that `aircraft` does not hold.
AbsenceCheck(fs, aircraft) ==
    IF Cardinality(fs) > 0
    THEN {e[1] : e \in {e \in fs : e[1] \notin DOMAIN aircraft}}
    ELSE {}

\* Lines 32-42: the Rust type for a type string; no branch matches "bool" or
\* "NoneType", and type_of_field keeps the text it had.
MappedType(type_of_field) ==
    LET type_string == type_of_field[2]
    IN IF type_string = "str" THEN <<"String">>
       ELSE IF type_string = "int" THEN <<"i32">>
       ELSE IF type_string = "float" THEN <<"f32">>
       ELSE IF type_string = "dict" THEN <<"Vec<String>">>
       ELSE IF type_string = "list" THEN <<"Vec<String>">>
       ELSE type_of_field

\* The three texts the output loop writes; `_` marks where field and type go.
AttrLine ==
    [form |-> "#[serde(skip_serializing_if = \"Option::is_none\")]\n",
     field |-> <<>>, type |-> <<>>]
OptionLine(field, type) == [form |-> "pub _: Option<_>,\n", field |-> field, type |-> type]
PlainLine(field, type) == [form |-> "pub _: _,\n", field |-> field, type |-> type]

\* Lines 43-47: what one entry adds to fields.txt.
LinesFor(entry, optional) ==
    IF entry[1] \in optional
    THEN <<AttrLine, OptionLine(entry[1], MappedType(entry[2]))>>
    ELSE <<PlainLine(entry[1], MappedType(entry[2]))>>

\* ---------------------------------------------------------------- actions

InitWith(K) ==
    /\ data \in Documents(K)
    /\ pc = "loop"
    /\ idx = 0
    /\ todo = {}
    /\ fields = {}
    /\ fields_unique = {}
    /\ sorted_fields = <<>>
    /\ written = 0
    /\ out = <<>>

Init == InitWith(Kinds)

InitNumbers == InitWith(NumberKinds)

\* Line 16: the outer loop takes the next record.
NextAircraft ==
    /\ pc = "loop"
    /\ todo = {}
    /\ idx < Len(data)
    /\ idx' = idx + 1
    /\ todo' = DOMAIN data[idx + 1]
    /\ UNCHANGED <<data, pc, fields, fields_unique, sorted_fields, written, out>>

\* Lines 17-25: one pass of the inner loop body. A dict yields its keys in the
\* order the document lists them, which is any order.
FieldStep ==
    /\ pc = "loop"
    /\ \E field \in todo :
        /\ fields_unique' = fields_unique \cup AbsenceCheck(fields, data[idx])
        /\ fields' = fields \cup {<<field, StrOfType(data[idx][field])>>}
        /\ todo' = todo \ {field}
    /\ UNCHANGED <<data, pc, idx, sorted_fields, written, out>>

\* Lines 28-30: the loop is over; sort and open fields.txt.
Sort ==
    /\ pc = "loop"
    /\ todo = {}
    /\ idx = Len(data)
    /\ sorted_fields' \in SortedByName(fields)
    /\ pc' = "write"
    /\ UNCHANGED <<data, idx, todo, fields, fields_unique, written, out>>

\* Lines 31-47: one pass of the output loop.
Write ==
    /\ pc = "write"
    /\ written < Len(sorted_fields)
    /\ out' = out \o LinesFor(sorted_fields[written + 1], fields_unique)
    /\ written' = written + 1
    /\ UNCHANGED <<data, pc, idx, todo, fields, fields_unique, sorted_fields>>

\* End of the with block: fields.txt is closed and the script ends.
Finish ==
    /\ pc = "write"
    /\ written = Len(sorted_fields)
    /\ pc' = "done"
    /\ UNCHANGED <<data, idx, todo, fields, fields_unique, sorted_fields, written, out>>

Next == NextAircraft \/ FieldStep \/ Sort \/ Write \/ Finish

Spec == Init /\ [][Next]_vars

\* The same program on documents whose values are all numbers.
SpecNumbers == InitNumbers /\ [][Next]_vars

\* ------------------------------------------------------------ vocabulary

\* Every field name that occurs in some record of the document.
AllFieldNames == UNION {DOMAIN data[r] : r \in 1..Len(data)}

\* At least one record of the document lacks f.
Lacking(f) == \E r \in 1..Len(data) : f \notin DOMAIN data[r]

IsDecl(line) == line.form # AttrLine.form

\* The declaration lines of fields.txt, in order; the n-th comes from
\* sorted_fields[n].
Decls == SelectSeq(out, IsDecl)

\* f has a declaration of the Option form behind an attribute line.
EmittedOptional(f) ==
    \E n \in 2..Len(out) : out[n] = OptionLine(f, out[n].type) /\ out[n - 1] = AttrLine

\* f has a declaration of the plain form.
EmittedRequired(f) ==
    \E n \in 1..Len(out) : out[n] = PlainLine(f, out[n].type)

\* The kind a (name, type string) entry was made from.
KindOf(entry) == entry[2][2]

\* The kinds the TypeTag table names: String, Integer, Float, Boolean,
\* MapLike, ListLike.
TypeTagKinds == {"str", "int", "float", "bool", "dict", "list"}

\* The MappedType table of the specification.
TableType(k) ==
    CASE k = "str" -> <<"String">>
      [] k = "int" -> <<"i32">>
      [] k = "float" -> <<"f32">>
      [] k = "bool" -> <<"bool">>
      [] k \in {"dict", "list"} -> <<"Vec<String>">>

\* The records handled in full so far.
Processed == {r \in 1..idx : r < idx \/ todo = {}}

\* The last record, among those reached, that holds f.
LastWith(f) == CHOOSE r \in 1..idx :
    /\ f \in DOMAIN data[r]
    /\ \A q \in (r + 1)..idx : f \notin DOMAIN data[q]

\* fields.txt for a sorted list of entries.
RECURSIVE Render(_)
Render(entries) ==
    IF entries = <<>> THEN <<>>
    ELSE LinesFor(Head(entries), fields_unique) \o Render(Tail(entries))

\* f is missing from the records before some record k > 1 and present in
\* every record from k on.
IntroducedLate(f) ==
    \E k \in 2..Len(data) :
        /\ \A r \in 1..(k - 1) : f \notin DOMAIN data[r]
        /\ \A r \in k..Len(data) : f \in DOMAIN data[r]

\* ---------------------------------------------------------------- claims

\* C1: when the script has finished, a field name of the document is written
\* as optional (attribute line and Option<...> declaration) if and only if at
\* least one record lacks it.
C1_OptionalitySoundness ==
    pc = "done" =>
        \A f \in AllFieldNames : EmittedOptional(f) <=> Lacking(f)

\* C2: when the script has finished, every field name of the document has
\* exactly one declaration line in fields.txt.
C2_Completeness ==
    pc = "done" =>
        \A f \in AllFieldNames :
            Cardinality({n \in 1..Len(Decls) : Decls[n].field = f}) = 1

\* C3: between records, `fields` holds at most one type string per name, it
\* is the one of the last record reached that holds the name, and every
\* declaration written carries the type mapped from it.
C3_SingleTypeLastWins ==
    todo = {} =>
        /\ \A e \in fields :
            /\ \A e2 \in fields : e2[1] = e[1] => e2 = e
            /\ e[2] = StrOfType(data[LastWith(e[1])][e[1]])
        /\ \A n \in 1..Len(Decls) :
            Decls[n].type = MappedType(StrOfType(data[LastWith(Decls[n].field)][Decls[n].field]))

\* C4: the names of the declaration lines of fields.txt are strictly
\* ascending in lexicographic order.
C4_StrictlySorted ==
    \A n \in 1..(Len(Decls) - 1) : LexLess(Decls[n].field, Decls[n + 1].field)

\* C5: when the script has finished, fields.txt is what the script writes
\* for every list the sort can return, whatever order the set `fields` is
\* iterated in.
C5_Determinism ==
    pc = "done" =>
        \A entries \in SortedByName(fields) : Render(entries) = out

\* C6: every declaration written for an entry whose kind the TypeTag table
\* names carries the MappedType the table gives for that kind.
C6_TypeMapping ==
    \A n \in 1..Len(Decls) :
        KindOf(sorted_fields[n]) \in TypeTagKinds =>
            Decls[n].type = TableType(KindOf(sorted_fields[n]))

\* C7: when some entry has a kind the TypeTag table does not name, the script
\* does not run to its end and writes no declaration for such an entry.
C7_UnmappedFatal ==
    (\E e \in fields : KindOf(e) \notin TypeTagKinds) =>
        /\ pc # "done"
        /\ \A n \in 1..Len(Decls) : KindOf(sorted_fields[n]) \in TypeTagKinds

\* C8: once a record other than the first has been handled, every name seen
\* in an earlier record and absent from it is in fields_unique.
C8_AbsenceStep ==
    \A r \in Processed \ {1} :
        \A f \in UNION {DOMAIN data[q] : q \in 1..(r - 1)} :
            f \notin DOMAIN data[r] => f \in fields_unique

OptionalSetInv ==
    \A f \in fields_unique :
        /\ \E e \in fields : e[1] = f
        /\ \E r \in 1..idx : \E q \in 1..(r - 1) :
            f \notin DOMAIN data[r] /\ f \in DOMAIN data[q]

\* C10: OptionalSetInv holds in every state, and no step removes an element
\* from `fields` or from fields_unique.
C10_OptionalSetInvariant ==
    /\ []OptionalSetInv
    /\ [][fields \subseteq fields' /\ fields_unique \subseteq fields_unique']_vars

\* The loop has added a name to fields_unique and is past the second record.
C10_Witness ==
    /\ fields_unique # {}
    /\ idx >= 2
    /\ todo = {}
    /\ pc = "loop"

====
